---- MODULE Spec2Model ----
\* TOEIC recommender service: the recommendation request of app/main.py, the
\* similarity engine of app/logic/similarity.py, the cold-start policy of
\* app/logic/cold_start.py and the hybrid scorer of app/logic/core_recommend.py.
\*
\* JSON containers are tagged with their Python type, [ty |-> ..., v |-> ...],
\* so that the isinstance() tests of the code are tests of the model; numbers
\* are Python ints and floats, floats with the rounding of the interpreter.
EXTENDS Integers, Sequences, FiniteSets, TLC

\* pc, fn, args, ret: position, name, arguments and result of the running call;
\* local: the local variables of the request handler across its awaits;
\* requests: the backend requests sent so far, each with what the backend
\* did with it; tries: the attempts of the current backend call
VARIABLES pc, fn, args, ret, local, requests, tries

vars == <<pc, fn, args, ret, local, requests, tries>>

\* ---------------------------------------------------------------------
\* Python float (IEEE-754 binary64, round-to-nearest-even) arithmetic.
\* A natural number is a little-endian sequence of 15-bit limbs; a float is
\* [s |-> sign, e |-> exponent, m |-> 53-bit mantissa], value s * m * 2^e.
\* ---------------------------------------------------------------------
LimbBits == 15
MantBits == 53
DivExtra == MantBits + 3

RECURSIVE Pow2(_)
Pow2(k) == IF k = 0 THEN 1 ELSE 2 * Pow2(k - 1)

Base == Pow2(LimbBits)

RECURSIVE BitLen(_)
BitLen(x) == IF x = 0 THEN 0 ELSE 1 + BitLen(x \div 2)

RECURSIVE BigNorm(_)
BigNorm(a) == IF Len(a) > 0 /\ a[Len(a)] = 0 THEN BigNorm(SubSeq(a, 1, Len(a) - 1)) ELSE a

RECURSIVE NatToBig(_)
NatToBig(n) == IF n = 0 THEN <<>> ELSE <<n % Base>> \o NatToBig(n \div Base)

Limb(a, i) == IF i <= Len(a) THEN a[i] ELSE 0

RECURSIVE BigAddC(_, _, _, _)
BigAddC(a, b, i, c) ==
    IF i > Len(a) /\ i > Len(b)
    THEN (IF c = 0 THEN <<>> ELSE <<c>>)
    ELSE LET t == Limb(a, i) + Limb(b, i) + c
         IN  <<t % Base>> \o BigAddC(a, b, i + 1, t \div Base)
BigAdd(a, b) == BigAddC(a, b, 1, 0)

RECURSIVE BigSubC(_, _, _, _)
BigSubC(a, b, i, br) ==
    IF i > Len(a) THEN <<>>
    ELSE LET t == Limb(a, i) - Limb(b, i) - br
         IN  IF t < 0 THEN <<t + Base>> \o BigSubC(a, b, i + 1, 1)
                      ELSE <<t>> \o BigSubC(a, b, i + 1, 0)
BigSub(a, b) == BigNorm(BigSubC(a, b, 1, 0))

RECURSIVE BigCmpAt(_, _, _)
BigCmpAt(a, b, i) ==
    IF i = 0 THEN 0
    ELSE IF a[i] > b[i] THEN 1
    ELSE IF a[i] < b[i] THEN -1
    ELSE BigCmpAt(a, b, i - 1)
BigCmp(a, b) ==
    IF Len(a) > Len(b) THEN 1
    ELSE IF Len(a) < Len(b) THEN -1
    ELSE BigCmpAt(a, b, Len(a))

RECURSIVE BigMulSmallC(_, _, _, _)
BigMulSmallC(a, k, i, c) ==
    IF i > Len(a)
    THEN (IF c = 0 THEN <<>> ELSE <<c>>)
    ELSE LET t == a[i] * k + c
         IN  <<t % Base>> \o BigMulSmallC(a, k, i + 1, t \div Base)
BigMulSmall(a, k) == IF k = 0 THEN <<>> ELSE BigMulSmallC(a, k, 1, 0)

BigShlLimbs(a, k) == IF Len(a) = 0 THEN a ELSE [i \in 1..k |-> 0] \o a
BigShl(a, bits) == BigShlLimbs(BigMulSmall(a, Pow2(bits % LimbBits)), bits \div LimbBits)

RECURSIVE BigMulAt(_, _, _)
BigMulAt(a, b, i) ==
    IF i > Len(b) THEN <<>>
    ELSE BigAdd(BigShlLimbs(BigMulSmall(a, b[i]), i - 1), BigMulAt(a, b, i + 1))
BigMul(a, b) == BigMulAt(a, b, 1)

BigBitLen(a) == IF Len(a) = 0 THEN 0 ELSE (Len(a) - 1) * LimbBits + BitLen(a[Len(a)])
BigBit(a, j) == (Limb(a, (j \div LimbBits) + 1) \div Pow2(j % LimbBits)) % 2
BigLowNonZero(a, k) ==
    \/ \E i \in 1..(k \div LimbBits) : Limb(a, i) # 0
    \/ Limb(a, (k \div LimbBits) + 1) % Pow2(k % LimbBits) # 0
BigShr(a, k) ==
    LET d == k \div LimbBits
        r == k % LimbBits
        n == IF Len(a) > d THEN Len(a) - d ELSE 0
    IN  BigNorm([i \in 1..n |->
            (Limb(a, i + d) \div Pow2(r)) + (Limb(a, i + d + 1) % Pow2(r)) * Pow2(LimbBits - r)])

\* long division, DigitBits bits of the quotient at a time: r < d throughout
DigitBits == 4
BigDivDigit(r, d) ==
    Cardinality({g \in 1..(Pow2(DigitBits) - 1) : BigCmp(BigMulSmall(d, g), r) <= 0})
RECURSIVE BigDivLoop(_, _, _, _)
BigDivStep(r, d, q, k, g) ==
    BigDivLoop(BigSub(r, BigMulSmall(d, g)), d, BigAdd(q, NatToBig(g)), k - DigitBits)
BigDivLoop(r, d, q, k) ==
    IF k = 0 \/ Len(q) > Len(d) + 1 THEN <<q, r>>
    ELSE BigDivStep(BigShl(r, DigitBits), d, BigShl(q, DigitBits), k,
                    BigDivDigit(BigShl(r, DigitBits), d))

FZero == [s |-> 0, e |-> 0, m |-> <<>>]

\* nearest float to s * (mag + sticky) * 2^ex, ties to even
FRound(sgn, mag, ex, sticky) ==
    LET len == BigBitLen(mag)
    IN  IF len = 0 THEN FZero
        ELSE IF len <= MantBits
        THEN [s |-> sgn, e |-> ex - (MantBits - len), m |-> BigShl(mag, MantBits - len)]
        ELSE LET k    == len - MantBits
                 q    == BigShr(mag, k)
                 half == BigBit(mag, k - 1) = 1
                 low  == sticky \/ BigLowNonZero(mag, k - 1)
                 up   == half /\ (low \/ q[1] % 2 = 1)
                 q1   == IF up THEN BigAdd(q, <<1>>) ELSE q
             IN  IF BigBitLen(q1) > MantBits
                 THEN [s |-> sgn, e |-> ex + k + 1, m |-> BigShr(q1, 1)]
                 ELSE [s |-> sgn, e |-> ex + k, m |-> q1]

FInt(n) == IF n < 0 THEN FRound(-1, NatToBig(-n), 0, FALSE)
           ELSE FRound(1, NatToBig(n), 0, FALSE)
FNeg(x) == [x EXCEPT !.s = -x.s]
FMul(x, y) == IF x.s = 0 \/ y.s = 0 THEN FZero
              ELSE FRound(x.s * y.s, BigMul(x.m, y.m), x.e + y.e, FALSE)
RECURSIVE BigDivSmallAt(_, _, _, _)
BigDivSmallAt(a, n, i, rem) ==
    IF i = 0 THEN <<<<>>, rem>>
    ELSE LET cur  == rem * Base + a[i]
             rest == BigDivSmallAt(a, n, i - 1, cur % n)
         IN  <<rest[1] \o <<cur \div n>>, rest[2]>>
BigDivSmall(a, n) ==
    LET qr == BigDivSmallAt(a, n, Len(a), 0) IN <<BigNorm(qr[1]), qr[2]>>

RECURSIVE OddPart(_, _)
OddPart(v, t) == IF v % 2 = 0 THEN OddPart(v \div 2, t + 1) ELSE <<v, t>>

\* floor(x.m * 2^DivExtra / y.m) and whether the division left a remainder;
\* a divisor whose mantissa is a small integer times a power of two is
\* divided limb by limb, any other one bit by bit
FDivQuot(x, y) ==
    LET vt == IF y.m[1] = 0 /\ y.m[2] = 0
              THEN OddPart(y.m[3] + y.m[4] * Base, 2 * LimbBits)
              ELSE <<Base, 0>>
    IN  IF vt[1] < Base
        THEN LET qr == BigDivSmall(BigShl(x.m, DivExtra - vt[2]), vt[1])
             IN  <<qr[1], qr[2] # 0>>
        ELSE LET ge == BigCmp(x.m, y.m) >= 0
                 qr == BigDivLoop(IF ge THEN BigSub(x.m, y.m) ELSE x.m, y.m,
                                  IF ge THEN <<1>> ELSE <<>>, DivExtra)
             IN  <<qr[1], Len(qr[2]) # 0>>
FDiv(x, y) ==
    IF x.s = 0 THEN FZero
    ELSE LET qs == FDivQuot(x, y)
         IN  FRound(x.s * y.s, qs[1], x.e - y.e - DivExtra, qs[2])
FAdd(x, y) ==
    IF x.s = 0 THEN y
    ELSE IF y.s = 0 THEN x
    ELSE LET ex == IF x.e < y.e THEN x.e ELSE y.e
             mx == BigShl(x.m, x.e - ex)
             my == BigShl(y.m, y.e - ex)
             c  == BigCmp(mx, my)
         IN  IF x.s = y.s THEN FRound(x.s, BigAdd(mx, my), ex, FALSE)
             ELSE IF c = 0 THEN FZero
             ELSE IF c > 0 THEN FRound(x.s, BigSub(mx, my), ex, FALSE)
             ELSE FRound(y.s, BigSub(my, mx), ex, FALSE)
FSub(x, y) == FAdd(x, FNeg(y))
FCmp(x, y) ==
    IF x.s # y.s THEN (IF x.s > y.s THEN 1 ELSE -1)
    ELSE IF x.s = 0 THEN 0
    ELSE LET c == IF x.e # y.e THEN (IF x.e > y.e THEN 1 ELSE -1) ELSE BigCmp(x.m, y.m)
         IN  x.s * c
FLt(x, y) == FCmp(x, y) < 0
FLe(x, y) == FCmp(x, y) <= 0
FMin(x, y) == IF FLt(y, x) THEN y ELSE x
FMax(x, y) == IF FLt(x, y) THEN y ELSE x
FAbs(x) == [x EXCEPT !.s = IF x.s = 0 THEN 0 ELSE 1]

\* float literals of the source
F(num, den) == FDiv(FInt(num), FInt(den))

\* ---------------------------------------------------------------------
\* Python values
\* ---------------------------------------------------------------------
Dict(f) == [ty |-> "dict", v |-> f]
List(q) == [ty |-> "list", v |-> q]
None == [ty |-> "NoneType", v |-> <<>>]
EmptyDict == Dict(<<>>)
EmptyList == List(<<>>)

\* no request is being served
NoLocals == [user_profile |-> None, test_candidates |-> EmptyList, lecture_candidates |-> EmptyList]
Idle == local = NoLocals /\ requests = <<>> /\ tries = 0

IsDict(x) == x.ty = "dict"
IsList(x) == x.ty = "list"
Has(d, k) == k \in DOMAIN d.v
Get(d, k, dflt) == IF k \in DOMAIN d.v THEN d.v[k] ELSE dflt
Abs(i) == IF i < 0 THEN -i ELSE i
Num(i) == [ty |-> "int", v |-> i]
Truthy(x) ==
    CASE x.ty = "dict" -> DOMAIN x.v # {}
      [] x.ty = "list" -> Len(x.v) > 0
      [] x.ty = "int" -> x.v # 0
      [] OTHER -> FALSE
MinInt(a, b) == IF b < a THEN b ELSE a
MaxInt(a, b) == IF a < b THEN b ELSE a

\* ---------------------------------------------------------------------
\* app/logic/similarity.py
\* ---------------------------------------------------------------------
required_fields == <<"target", "averageListeningScore", "averageReadingScore", "averageTotalScore">>
max_target_diff == 500
max_score_diff == 300

MissingFields(user) == {i \in 1..Len(required_fields) : ~(IsDict(user) /\ Has(user, required_fields[i]))}

\* sum() of a list of floats: 0 + x1 + x2 + ... from left to right
RECURSIVE SumFrom(_, _, _)
SumFrom(q, i, acc) == IF i > Len(q) THEN acc ELSE SumFrom(q, i + 1, FAdd(acc, q[i]))
Sum(q) == SumFrom(q, 1, FZero)

\* min(1.0, diff / max_diff)
NormalizedDiff(diff, max_d) == FMin(FInt(1), FDiv(FInt(diff), FInt(max_d)))

\* normalized_diffs: listening is compared with the other user's reading and
\* reading with the other user's listening, as in the source
NormalizedDiffs(user1, user2) ==
    << NormalizedDiff(Abs(Get(user1, "target", 0) - Get(user2, "target", 0)), max_target_diff),
       NormalizedDiff(Abs(Get(user1, "averageListeningScore", 0) - Get(user2, "averageReadingScore", 0)), max_score_diff),
       NormalizedDiff(Abs(Get(user1, "averageReadingScore", 0) - Get(user2, "averageListeningScore", 0)), max_score_diff),
       NormalizedDiff(Abs(Get(user1, "averageTotalScore", 0) - Get(user2, "averageTotalScore", 0)), max_score_diff) >>

\* sum(q) / len(q)
Mean(q) == FDiv(Sum(q), FInt(Len(q)))

calculate_user_similarity(user1, user2) ==
    IF user1.ty = "NoneType" \/ user2.ty = "NoneType"
    THEN FZero                       \* TypeError of `field not in None`, caught
    ELSE IF MissingFields(user1) # {} \/ MissingFields(user2) # {}
    THEN F(1, 10)
    ELSE FMax(FZero, FMin(FInt(1), FSub(FInt(1), Mean(NormalizedDiffs(user1, user2)))))

\* list[:n]
Slice(q, n) ==
    LET k == IF n >= 0 THEN (IF n < Len(q) THEN n ELSE Len(q))
             ELSE (IF Len(q) + n > 0 THEN Len(q) + n ELSE 0)
    IN  SubSeq(q, 1, k)

\* mutant of InsertDesc: an entry is placed before the entries equal to it
RECURSIVE InsertDesc_BeforeEquals(_, _, _)
InsertDesc_BeforeEquals(q, x, i) ==
    IF i > Len(q) THEN Append(q, x)
    ELSE IF FLe(q[i][2], x[2]) THEN SubSeq(q, 1, i - 1) \o <<x>> \o SubSeq(q, i, Len(q))
    ELSE InsertDesc_BeforeEquals(q, x, i + 1)

\* list.sort(key=lambda x: x[1], reverse=True): stable, descending by the
\* float at position 2 of each tuple
RECURSIVE InsertDesc(_, _, _)
InsertDesc(q, x, i) ==
    IF i > Len(q) THEN Append(q, x)
    ELSE IF FLt(q[i][2], x[2]) THEN SubSeq(q, 1, i - 1) \o <<x>> \o SubSeq(q, i, Len(q))
    ELSE InsertDesc(q, x, i + 1)
RECURSIVE SortDescFrom(_, _, _)
SortDescFrom(q, i, acc) ==
    IF i > Len(q) THEN acc ELSE SortDescFrom(q, i + 1, InsertDesc(acc, q[i], 1))
SortDesc(q) == SortDescFrom(q, 1, <<>>)

\* mutant of PeerIsCandidate: the target's own id is not excluded
PeerIsCandidate_KeepsSelf(profile, target_user_id) ==
    /\ IsDict(profile)
    /\ Get(profile, "userId", "") # ""
    /\ MissingFields(profile) = {}

\* the loop body's filter: a dict with a userId other than the target's and
\* all required fields
PeerIsCandidate(profile, target_user_id) ==
    /\ IsDict(profile)
    /\ Get(profile, "userId", "") # ""
    /\ Get(profile, "userId", "") # target_user_id
    /\ MissingFields(profile) = {}

RECURSIVE Similarities(_, _, _)
Similarities(target_user_profile, users, i) ==
    IF i > Len(users) THEN <<>>
    ELSE IF PeerIsCandidate(users[i], Get(target_user_profile, "userId", ""))
    THEN <<<<Get(users[i], "userId", ""), calculate_user_similarity(target_user_profile, users[i])>>>>
         \o Similarities(target_user_profile, users, i + 1)
    ELSE Similarities(target_user_profile, users, i + 1)

find_similar_users(target_user_profile, all_users_data, n) ==
    IF ~IsDict(target_user_profile) THEN <<>>
    ELSE IF ~IsList(all_users_data) THEN <<>>
    ELSE IF Get(target_user_profile, "userId", "") = "" THEN <<>>
    ELSE Slice(SortDesc(Similarities(target_user_profile, all_users_data.v, 1)), n)

\* ---------------------------------------------------------------------
\* app/logic/core_recommend.py
\* ---------------------------------------------------------------------

\* mutant of is_cold_start_user: either threshold alone makes a user cold
is_cold_start_user_Either(user_profile) ==
    IF ~IsDict(user_profile) THEN TRUE
    ELSE LET th == Get(user_profile, "testHistory", EmptyList)
             lp == Get(user_profile, "learningProgress", EmptyDict)
             test_history == IF IsList(th) THEN th ELSE EmptyList
             learning_progress == IF IsDict(lp) THEN lp ELSE EmptyDict
         IN  Len(test_history.v) < 2 \/ Cardinality(DOMAIN learning_progress.v) < 3

is_cold_start_user(user_profile) ==
    IF ~IsDict(user_profile) THEN TRUE
    ELSE LET th == Get(user_profile, "testHistory", EmptyList)
             lp == Get(user_profile, "learningProgress", EmptyDict)
             test_history == IF IsList(th) THEN th ELSE EmptyList
             learning_progress == IF IsDict(lp) THEN lp ELSE EmptyDict
         IN  Len(test_history.v) < 2 /\ Cardinality(DOMAIN learning_progress.v) < 3

\* the value get_topic_deficiency returns at a matching entry
EntryDeficiency(item, desired_rate) ==
    LET total_correct   == Get(item, "totalCorrect", 0)
        total_incorrect == Get(item, "totalIncorrect", 0)
        total           == total_correct + total_incorrect
    IN  IF total > 0
        THEN FMax(FZero, FSub(desired_rate, FDiv(FInt(total_correct), FInt(total))))
        ELSE F(1, 2)

\* mutant of DeficiencyFrom: an entry without attempts is passed over and a
\* later entry of the same topic is used
RECURSIVE DeficiencyFrom_SkipsEmpty(_, _, _, _)
DeficiencyFrom_SkipsEmpty(topic, items, i, desired_rate) ==
    IF i > Len(items) THEN F(1, 2)
    ELSE IF IsDict(items[i]) /\ Get(items[i], "topicName", "") = topic
            /\ Get(items[i], "totalCorrect", 0) + Get(items[i], "totalIncorrect", 0) > 0
    THEN EntryDeficiency(items[i], desired_rate)
    ELSE DeficiencyFrom_SkipsEmpty(topic, items, i + 1, desired_rate)

\* the loop of get_topic_deficiency from entry i on
RECURSIVE DeficiencyFrom(_, _, _, _)
DeficiencyFrom(topic, items, i, desired_rate) ==
    IF i > Len(items) THEN F(1, 2)
    ELSE IF IsDict(items[i]) /\ Get(items[i], "topicName", "") = topic
    THEN EntryDeficiency(items[i], desired_rate)
    ELSE DeficiencyFrom(topic, items, i + 1, desired_rate)

get_topic_deficiency(topic, topic_stats, desired_rate) ==
    IF ~IsList(topic_stats) THEN F(1, 2)
    ELSE DeficiencyFrom(topic, topic_stats.v, 1, desired_rate)

\* user_data_map.get(uid): the last profile of the list that carries the id
UserDataMap(all_users_data, uid) ==
    LET at == {i \in 1..Len(all_users_data.v) :
                 /\ IsDict(all_users_data.v[i])
                 /\ Has(all_users_data.v[i], "userId")
                 /\ all_users_data.v[i].v.userId = uid}
    IN  IF at = {} THEN None ELSE all_users_data.v[CHOOSE i \in at : \A j \in at : j <= i]

\* mutant of AttemptPenalty: repeated attempts are not penalised
AttemptPenalty_NoPenalty(attempts) == FInt(1)

\* attempt_factor before the mastery bonus
AttemptPenalty(attempts) ==
    IF attempts <= 2 THEN FInt(1)
    ELSE FMax(F(4, 10), FSub(FInt(1), FMul(F(15, 100), FInt(attempts - 2))))

\* attempt_factor after the mastery bonus
AttemptFactor(normalized_score, attempts, penalty) ==
    IF FLt(F(85, 100), normalized_score) /\ attempts >= 3
    THEN FAdd(penalty, FMin(F(3, 10), FMul(F(1, 10), FInt(attempts - 2))))
    ELSE penalty

ScoreTimesFactor(normalized_score, attempts) ==
    FMul(normalized_score, AttemptFactor(normalized_score, attempts, AttemptPenalty(attempts)))

\* effective score of a neighbor's test record
EffectiveScore(test_record) ==
    ScoreTimesFactor(
        FDiv(FInt(Get(test_record, "avgScore",
                      Get(test_record, "averageScore", Get(test_record, "avg_score", 0)))),
             FInt(990)),
        Get(test_record, "attempt",
            Get(test_record, "attempts", Get(test_record, "attemptCount", 0))))

\* first record of a test history that is a dict and carries the candidate id
RECURSIVE FirstTestRecord(_, _, _)
FirstTestRecord(history, candidate_id, i) ==
    IF i > Len(history) THEN 0
    ELSE IF IsDict(history[i])
            /\ Get(history[i], "testId", Get(history[i], "test_id", "")) = candidate_id
    THEN i
    ELSE FirstTestRecord(history, candidate_id, i + 1)

\* progress_data of a lecture: the direct key, else the first entry of the
\* nested "items" list that carries the id, else nothing
RECURSIVE FirstItemWith(_, _, _)
FirstItemWith(items, candidate_id, i) ==
    IF i > Len(items) THEN None
    ELSE IF IsDict(items[i]) /\ Has(items[i], candidate_id) THEN items[i].v[candidate_id]
    ELSE FirstItemWith(items, candidate_id, i + 1)
ProgressData(learning_progress, candidate_id) ==
    IF Has(learning_progress, candidate_id) THEN learning_progress.v[candidate_id]
    ELSE FirstItemWith(Get(learning_progress, "items", EmptyList).v, candidate_id, 1)

\* completion of a lecture from its progress entry
Completion(progress_data) ==
    IF IsDict(progress_data)
    THEN FDiv(FInt(MinInt(Get(progress_data, "percent", 0), 100)), FInt(100))
    ELSE FDiv(FInt(MinInt(progress_data.v, 100)), FInt(100))

NoHit == [hit |-> FALSE, val |-> FZero]

TestHit(history, at, similarity) ==
    IF at = 0 THEN NoHit
    ELSE [hit |-> TRUE, val |-> FMul(similarity, EffectiveScore(history[at]))]

LectureHit(progress_data, similarity) ==
    IF ~Truthy(progress_data) THEN NoHit
    ELSE [hit |-> TRUE, val |-> FMul(similarity, Completion(progress_data))]

\* what one neighbor adds to (score, count): hit says whether count grows
NeighborScore(profile, similarity, candidate_id, candidate_type) ==
    IF candidate_type = "test"
    THEN IF IsList(Get(profile, "testHistory", EmptyList))
         THEN TestHit(Get(profile, "testHistory", EmptyList).v,
                      FirstTestRecord(Get(profile, "testHistory", EmptyList).v, candidate_id, 1),
                      similarity)
         ELSE NoHit
    ELSE IF candidate_type = "lecture"
    THEN IF IsDict(Get(profile, "learningProgress", EmptyDict))
         THEN LectureHit(ProgressData(Get(profile, "learningProgress", EmptyDict), candidate_id),
                         similarity)
         ELSE NoHit
    ELSE NoHit

\* the loop body for one (uid, similarity) pair
NeighborStep(profile, similarity, candidate_id, candidate_type) ==
    IF Truthy(profile) THEN NeighborScore(profile, similarity, candidate_id, candidate_type)
    ELSE NoHit

\* mutant of CollabFrom: every neighbor is counted, with or without a record
RECURSIVE CollabFrom_CountsEvery(_, _, _, _)
CollabFrom_CountsEvery(steps, i, score, count) ==
    IF i > Len(steps) THEN FDiv(score, FInt(MaxInt(1, count)))
    ELSE IF steps[i].hit THEN CollabFrom_CountsEvery(steps, i + 1, FAdd(score, steps[i].val), count + 1)
    ELSE CollabFrom_CountsEvery(steps, i + 1, score, count + 1)

\* the loop of get_collaborative_score from neighbor i on; steps[i] is what
\* neighbor i adds
RECURSIVE CollabFrom(_, _, _, _)
CollabFrom(steps, i, score, count) ==
    IF i > Len(steps) THEN FDiv(score, FInt(MaxInt(1, count)))
    ELSE IF steps[i].hit THEN CollabFrom(steps, i + 1, FAdd(score, steps[i].val), count + 1)
    ELSE CollabFrom(steps, i + 1, score, count)

get_collaborative_score(candidate_id, similar_users, all_users_data, candidate_type) ==
    IF Len(similar_users) = 0 \/ candidate_id = "" THEN FZero
    ELSE IF ~IsList(all_users_data) THEN FZero
    ELSE CollabFrom([i \in 1..Len(similar_users) |->
                        NeighborStep(UserDataMap(all_users_data, similar_users[i][1]),
                                     similar_users[i][2], candidate_id, candidate_type)],
                    1, FZero, 0)

WEIGHT_TOPIC == 10
WEIGHT_COLLAB == 5
TARGET_MARGIN == 50
max_diff == 100

\* mutant of ResolveCandidateId: a candidate without id gets a placeholder id
ResolveCandidateId_Placeholder(candidate, candidate_type) ==
    IF candidate_type = "test"
    THEN Get(candidate, "testId", Get(candidate, "id", "Unknown"))
    ELSE Get(candidate, "lectureId", Get(candidate, "id", "Unknown"))

\* candidate_id of score_candidate
ResolveCandidateId(candidate, candidate_type) ==
    IF candidate_type = "test"
    THEN Get(candidate, "testId", Get(candidate, "id", ""))
    ELSE Get(candidate, "lectureId", Get(candidate, "id", ""))

\* total_deficiency of score_candidate: 0 + the deficiency of each topic
RECURSIVE TotalDeficiencyFrom(_, _, _, _)
TotalDeficiencyFrom(topics, topic_stats, i, acc) ==
    IF i > Len(topics) THEN acc
    ELSE TotalDeficiencyFrom(topics, topic_stats, i + 1,
                             FAdd(acc, get_topic_deficiency(topics[i], topic_stats, F(8, 10))))

\* topic_score of score_candidate
TopicScore(total_deficiency, topic_count) ==
    FDiv(total_deficiency, FMax(FInt(1), FMul(FInt(topic_count), F(8, 10))))

\* difficulty_score of score_candidate
DifficultyScore(difficulty, base_difficulty) ==
    FMax(FZero, FDiv(FInt(max_diff - Abs(difficulty - base_difficulty)), FInt(max_diff)))

\* mutant of BaseDifficulty: always the recommended difficulty
BaseDifficulty_AlwaysRecommended(user_profile, margin) ==
    Get(user_profile, "target", 500) + margin

\* base_difficulty of score_candidate
BaseDifficulty(user_profile, margin) ==
    IF Get(user_profile, "averageTotalScore", 0) < Get(user_profile, "target", 0)
    THEN Get(user_profile, "averageTotalScore", 0)
    ELSE Get(user_profile, "target", 500) + margin

TopicScoreOf(user_profile, topics) ==
    IF IsList(topics)
    THEN TopicScore(TotalDeficiencyFrom(topics.v, Get(user_profile, "topicStats", EmptyList), 1, FZero),
                    Len(topics.v))
    ELSE TopicScore(FZero, 0)

ContentScoreWith(user_profile, candidate, candidate_type, margin, topic_score) ==
    IF candidate_type = "test" /\ Has(candidate, "difficulty")
    THEN FDiv(FAdd(DifficultyScore(candidate.v.difficulty, BaseDifficulty(user_profile, margin)),
                   topic_score),
              FInt(2))
    ELSE FMin(FInt(1), topic_score)

\* content_score of score_candidate
ContentScore(user_profile, candidate, candidate_type, margin) ==
    ContentScoreWith(user_profile, candidate, candidate_type, margin,
                     TopicScoreOf(user_profile, Get(candidate, "topics", EmptyList)))

\* mutant of FinalScore: the plain average of the two components
FinalScore_PlainAverage(content_score, collab_score, weight_topic, weight_collab) ==
    FDiv(FAdd(content_score, collab_score), FInt(2))

\* final_score of score_candidate
FinalScore(content_score, collab_score, weight_topic, weight_collab) ==
    FDiv(FAdd(FMul(weight_topic, content_score), FMul(weight_collab, collab_score)),
         FAdd(weight_topic, weight_collab))

score_candidate(user_profile, candidate, similar_users, all_users_data, candidate_type, margin, weight_topic, weight_collab) ==
    IF ~IsDict(user_profile) \/ ~IsDict(candidate) THEN FZero
    ELSE IF ResolveCandidateId(candidate, candidate_type) = "" THEN FZero
    ELSE FinalScore(ContentScore(user_profile, candidate, candidate_type, margin),
                    get_collaborative_score(ResolveCandidateId(candidate, candidate_type),
                                            similar_users, all_users_data, candidate_type),
                    weight_topic, weight_collab)

\* ---------------------------------------------------------------------
\* app/logic/data_fetcher.py
\* ---------------------------------------------------------------------

\* what a call returned or raised
Return(v) == [exc |-> "none", status_code |-> 0, v |-> v]
Raise(exc, status_code) == [exc |-> exc, status_code |-> status_code, v |-> None]
Raised(r) == r.exc # "none"

\* what the backend does with one request: it answers with a status and a
\* JSON body, or the connection fails
Answer(status, body) == [kind |-> "answer", status |-> status, body |-> body]
ConnectionError == [kind |-> "connection_error", status |-> 0, body |-> None]

\* the try block of _make_internal_api_request
SessionRequest(outcome) ==
    IF outcome.kind = "connection_error" THEN Raise("ClientError", 0)
    ELSE IF outcome.status >= 400 THEN Raise("HTTPException", outcome.status)
    ELSE Return(outcome.body)

\* _make_internal_api_request: the except clauses turn a ClientError into
\* HTTPException(503) and every other exception, the HTTPException raised in
\* the try block included, into HTTPException(500)
make_internal_api_request(outcome) ==
    IF SessionRequest(outcome).exc = "ClientError" THEN Raise("HTTPException", 503)
    ELSE IF Raised(SessionRequest(outcome)) THEN Raise("HTTPException", 500)
    ELSE SessionRequest(outcome)

\* backoff.on_exception(expo, (ClientError, ClientResponseError), max_tries=3):
\* the call is attempted again when it raised one of the listed exceptions
\* and fewer than max_tries attempts were made
max_tries == 3
Retries(r, made) == r.exc \in {"ClientError", "ClientResponseError"} /\ made < max_tries

DefaultProfile(user_id) ==
    Dict([userId |-> user_id, testHistory |-> EmptyList, learningProgress |-> EmptyDict])

\* get_user_profile, from what _make_internal_api_request returned or raised
get_user_profile(r, user_id) ==
    IF Raised(r)
    THEN (IF r.status_code = 404 THEN Return(DefaultProfile(user_id)) ELSE r)
    ELSE IF ~IsDict(r.v) THEN Return(DefaultProfile(user_id))
    ELSE r

\* the "data" list of a response, [] when the response or the field has
\* another shape; an exception is raised again
DataList(r) ==
    IF Raised(r) THEN r
    ELSE IF ~IsDict(r.v) THEN Return(EmptyList)
    ELSE IF ~IsList(Get(r.v, "data", EmptyList)) THEN Return(EmptyList)
    ELSE Return(Get(r.v, "data", EmptyList))

get_test_candidates(r) == DataList(r)
get_lecture_candidates(r) == DataList(r)
get_all_user_profiles_for_similarity(r) == DataList(r)

\* ---------------------------------------------------------------------
\* app/logic/cold_start.py
\* ---------------------------------------------------------------------

\* user_profile['userId'] evaluates
HasUserId(user_profile) == IsDict(user_profile) /\ Has(user_profile, "userId")

\* [item["testId"] for item in user_profile.get("testHistory", [])] evaluates:
\* the history is a list of dicts that carry a testId, or an empty dict
TestHistoryIterates(user_profile) ==
    \/ /\ IsList(Get(user_profile, "testHistory", EmptyList))
       /\ \A i \in 1..Len(Get(user_profile, "testHistory", EmptyList).v) :
            /\ IsDict(Get(user_profile, "testHistory", EmptyList).v[i])
            /\ Has(Get(user_profile, "testHistory", EmptyList).v[i], "testId")
    \/ /\ IsDict(Get(user_profile, "testHistory", EmptyList))
       /\ DOMAIN Get(user_profile, "testHistory", EmptyList).v = {}

completed_test_ids(user_profile) ==
    IF IsList(Get(user_profile, "testHistory", EmptyList))
    THEN {Get(user_profile, "testHistory", EmptyList).v[i].v.testId :
            i \in 1..Len(Get(user_profile, "testHistory", EmptyList).v)}
    ELSE {}

\* mutant of available_tests: tests already taken stay among the candidates
available_tests_KeepsTaken(user_profile, test_candidates) ==
    test_candidates.v

\* the tests of the catalog whose testId is not in the user's history
available_tests(user_profile, test_candidates) ==
    SelectSeq(test_candidates.v, LAMBDA test : test.v.testId \notin completed_test_ids(user_profile))

\* max([t["totalUserAttempt"] for t in test_candidates]) of a non-empty catalog
MaxAttempts(test_candidates) ==
    CHOOSE m \in {test_candidates.v[i].v.totalUserAttempt : i \in 1..Len(test_candidates.v)} :
        \A j \in 1..Len(test_candidates.v) : test_candidates.v[j].v.totalUserAttempt <= m

popularity_score(test, max_attempts) ==
    IF max_attempts > 0 THEN FDiv(FInt(test.v.totalUserAttempt), FInt(max_attempts)) ELSE FZero

difficulty_score(test, target_difficulty) ==
    FSub(FInt(1), FMin(FInt(1), FDiv(FInt(Abs(test.v.difficulty - target_difficulty)), FInt(10))))

\* mutant of combined_score: the two weights are exchanged
combined_score_SwappedWeights(test, max_attempts, target_difficulty) ==
    FAdd(FMul(F(3, 10), popularity_score(test, max_attempts)),
         FMul(F(7, 10), difficulty_score(test, target_difficulty)))

combined_score(test, max_attempts, target_difficulty) ==
    FAdd(FMul(F(7, 10), popularity_score(test, max_attempts)),
         FMul(F(3, 10), difficulty_score(test, target_difficulty)))

ScoredColdTest(test, score) ==
    Dict([id |-> test.v.testId, name |-> test.v.name, score |-> score, already_taken |-> FALSE,
          attempts |-> 0, avg_score |-> 0, difficulty |-> test.v.difficulty,
          topics |-> test.v.topics, testId |-> test.v.testId])

\* an entry with its sort key
Keyed(entry) == <<entry, entry.v.score>>
Entries(keyed) == [i \in 1..Len(keyed) |-> keyed[i][1]]

ScoredColdTests(available, test_candidates, target_difficulty) ==
    [i \in 1..Len(available) |->
        Keyed(ScoredColdTest(available[i],
                             combined_score(available[i], MaxAttempts(test_candidates), target_difficulty)))]

recommend_cold_start_tests(user_profile, test_candidates, limit) ==
    IF ~TestHistoryIterates(user_profile) THEN Raise("TypeError", 0)
    ELSE Return(Slice(Entries(SortDesc(ScoredColdTests(available_tests(user_profile, test_candidates),
                                                       test_candidates,
                                                       Get(user_profile, "target", 500) \div 100))),
                      limit))

ScoredColdLecture(lecture) ==
    Dict([id |-> lecture.v.lectureId, name |-> lecture.v.name, score |-> FInt(1),
          already_learned |-> FALSE, completion |-> 0, topics |-> lecture.v.topics,
          lectureId |-> lecture.v.lectureId])

available_lectures(user_profile, lecture_candidates) ==
    SelectSeq(lecture_candidates.v,
              LAMBDA lecture : lecture.v.lectureId \notin DOMAIN Get(user_profile, "learningProgress", EmptyDict).v)

recommend_cold_start_lectures(user_profile, lecture_candidates, limit) ==
    IF ~IsDict(Get(user_profile, "learningProgress", EmptyDict)) THEN Raise("AttributeError", 0)
    ELSE Return(Slice([i \in 1..Len(available_lectures(user_profile, lecture_candidates)) |->
                          ScoredColdLecture(available_lectures(user_profile, lecture_candidates)[i])],
                      limit))

\* the explanation of a test: its difficulty and the gap to the target
DifficultyPart(rec, user_profile) ==
    [part |-> "difficulty", difficulty |-> Get(rec, "difficulty", 0),
     diff_gap |-> Abs(Get(rec, "difficulty", 0) - Get(user_profile, "target", 0))]

\* the explanation of a lecture: its topics, joined
TopicsPart(rec) == [part |-> "topics", topic_list |-> Get(rec, "topics", EmptyList).v]

ColdTestRecommendation(rec, user_profile) ==
    Dict([id |-> Get(rec, "id", ""), name |-> Get(rec, "name", ""), score |-> Get(rec, "score", 0),
          explanation |-> <<DifficultyPart(rec, user_profile)>>, testId |-> Get(rec, "testId", "")])

LectureRecommendation(rec, parts) ==
    Dict([id |-> Get(rec, "id", ""), name |-> Get(rec, "name", ""), score |-> Get(rec, "score", 0),
          explanation |-> parts, lectureId |-> Get(rec, "lectureId", "")])

RecommendationResult(user_id, test_recommendations, lecture_recommendations) ==
    Dict([userId |-> user_id, recommendedTests |-> List(test_recommendations),
          recommendedLectures |-> List(lecture_recommendations)])

\* the format step of generate_cold_start_recommendations
ColdFormat(user_profile, recommended_tests, recommended_lectures) ==
    IF Raised(recommended_tests) THEN recommended_tests
    ELSE IF Raised(recommended_lectures) THEN recommended_lectures
    ELSE Return(RecommendationResult(
                  user_profile.v.userId,
                  [i \in 1..Len(recommended_tests.v) |->
                      ColdTestRecommendation(recommended_tests.v[i], user_profile)],
                  [i \in 1..Len(recommended_lectures.v) |->
                      LectureRecommendation(recommended_lectures.v[i],
                                            <<TopicsPart(recommended_lectures.v[i])>>)]))

\* generate_cold_start_recommendations after its two fetches
generate_cold_start_recommendations(user_profile, test_candidates, lecture_candidates, limit) ==
    ColdFormat(user_profile,
               recommend_cold_start_tests(user_profile, test_candidates, limit),
               recommend_cold_start_lectures(user_profile, lecture_candidates, limit))

\* ---------------------------------------------------------------------
\* recommend_hybrid of app/logic/core_recommend.py
\* ---------------------------------------------------------------------

\* the user's first history record of a test, 0 when there is none
RECURSIVE FirstTaken(_, _, _)
FirstTaken(history, test_id, i) ==
    IF i > Len(history) THEN 0
    ELSE IF IsDict(history[i]) /\ Has(history[i], "testId") /\ history[i].v.testId = test_id
    THEN i
    ELSE FirstTaken(history, test_id, i + 1)

TakenAt(user_profile, test) ==
    IF IsList(Get(user_profile, "testHistory", EmptyList)) /\ Get(test, "testId", "") # ""
    THEN FirstTaken(Get(user_profile, "testHistory", EmptyList).v, test.v.testId, 1)
    ELSE 0

\* the label of a test: its id, with the number of attempts when it was taken
TestLabel(test, taken, attempts) ==
    IF taken THEN <<Get(test, "testId", "Unknown"), "retake", attempts>>
    ELSE <<Get(test, "testId", "Unknown")>>

ScoredTest(test, score, taken, attempts, avg_score) ==
    Dict([id |-> TestLabel(test, taken, attempts), name |-> Get(test, "name", None), score |-> score,
          already_taken |-> taken, attempts |-> attempts, avg_score |-> avg_score,
          difficulty |-> Get(test, "difficulty", 0), topics |-> Get(test, "topics", EmptyList),
          testId |-> Get(test, "testId", "")])

ScoredTestOf(test, score, history, at) ==
    IF at = 0 THEN ScoredTest(test, score, FALSE, 0, 0)
    ELSE ScoredTest(test, score, TRUE,
                    Get(history[at], "attempt", Get(history[at], "attempts", 0)),
                    Get(history[at], "avgScore", Get(history[at], "averageScore", 0)))

\* mutant of TestIsScored: every test of the catalog is scored
TestIsScored_Always(user_profile, test) == IsDict(test)

\* a test of the catalog is scored when it is a dict that is not more than
\* 20 points below the user's average
TestIsScored(user_profile, test) ==
    IsDict(test) /\ Get(test, "difficulty", 0) >= Get(user_profile, "averageTotalScore", 0) - 20

ScoreTests(user_profile, tests, similar_users, all_users_data, margin) ==
    [i \in 1..Len(tests) |->
        Keyed(ScoredTestOf(tests[i],
                           score_candidate(user_profile, tests[i], similar_users, all_users_data,
                                           "test", margin, FInt(WEIGHT_TOPIC), FInt(WEIGHT_COLLAB)),
                           Get(user_profile, "testHistory", EmptyList).v,
                           TakenAt(user_profile, tests[i])))]

scored_tests(user_profile, test_candidates, similar_users, all_users_data, margin) ==
    ScoreTests(user_profile,
               SelectSeq(test_candidates.v, LAMBDA test : TestIsScored(user_profile, test)),
               similar_users, all_users_data, margin)

\* the user's progress entry of a lecture makes it "already learned"
LectureLearned(user_profile, lecture) ==
    /\ IsDict(Get(user_profile, "learningProgress", EmptyDict))
    /\ Get(lecture, "lectureId", "") # ""
    /\ Has(Get(user_profile, "learningProgress", EmptyDict), lecture.v.lectureId)
    /\ IsDict(Get(user_profile, "learningProgress", EmptyDict).v[lecture.v.lectureId])

LectureLabel(lecture, learned, completion) ==
    IF learned THEN <<Get(lecture, "lectureId", "Unknown"), "continue", completion>>
    ELSE <<Get(lecture, "lectureId", "Unknown")>>

ScoredLecture(lecture, score, learned, completion) ==
    Dict([id |-> LectureLabel(lecture, learned, completion), name |-> Get(lecture, "name", None),
          score |-> score, already_learned |-> learned, completion |-> completion,
          topics |-> Get(lecture, "topics", EmptyList), lectureId |-> Get(lecture, "lectureId", "")])

ScoredLectureOf(user_profile, lecture, score) ==
    IF LectureLearned(user_profile, lecture)
    THEN ScoredLecture(lecture, score, TRUE,
                       Get(user_profile.v.learningProgress.v[lecture.v.lectureId], "percent", 0))
    ELSE ScoredLecture(lecture, score, FALSE, 0)

ScoreLectures(user_profile, lectures, similar_users, all_users_data, margin) ==
    [i \in 1..Len(lectures) |->
        Keyed(ScoredLectureOf(user_profile, lectures[i],
                              score_candidate(user_profile, lectures[i], similar_users, all_users_data,
                                              "lecture", margin, FInt(WEIGHT_TOPIC), FInt(WEIGHT_COLLAB))))]

scored_lectures(user_profile, lecture_candidates, similar_users, all_users_data, margin) ==
    ScoreLectures(user_profile, SelectSeq(lecture_candidates.v, IsDict),
                  similar_users, all_users_data, margin)

\* sorted(scored, key=score, reverse=True)[:limit]
Top(scored, limit) == Slice(Entries(SortDesc(scored)), limit)

\* the explanation of a test that was taken before
RetakenPart(rec, user_profile) ==
    [part |-> "retaken", attempts |-> rec.v.attempts, avg_score |-> rec.v.avg_score,
     below_target |-> rec.v.avg_score < Get(user_profile, "target", 0)]

HybridTestRecommendation(rec, user_profile) ==
    Dict([id |-> Get(rec, "id", ""), name |-> Get(rec, "name", None), score |-> Get(rec, "score", 0),
          explanation |-> IF rec.v.already_taken
                          THEN <<RetakenPart(rec, user_profile), DifficultyPart(rec, user_profile)>>
                          ELSE <<DifficultyPart(rec, user_profile)>>,
          testId |-> Get(rec, "testId", "")])

LearnedPart(rec) == [part |-> "learned", completion |-> Get(rec, "completion", 0)]

HybridLectureRecommendation(rec) ==
    LectureRecommendation(rec, IF Get(rec, "already_learned", FALSE)
                               THEN <<LearnedPart(rec), TopicsPart(rec)>>
                               ELSE <<TopicsPart(rec)>>)

HybridFormat(user_profile, recommended_tests, recommended_lectures) ==
    RecommendationResult(
        user_profile.v.userId,
        [i \in 1..Len(recommended_tests) |-> HybridTestRecommendation(recommended_tests[i], user_profile)],
        [i \in 1..Len(recommended_lectures) |-> HybridLectureRecommendation(recommended_lectures[i])])

HybridRank(user_profile, test_candidates, lecture_candidates, all_users_data, similar_users, limit, margin) ==
    HybridFormat(user_profile,
                 Top(scored_tests(user_profile, test_candidates, similar_users, all_users_data, margin), limit),
                 Top(scored_lectures(user_profile, lecture_candidates, similar_users, all_users_data, margin), limit))

\* recommend_hybrid after its three fetches; the fetchers return lists, so
\* the isinstance() repairs of the candidates leave them as they are
recommend_hybrid(user_profile, test_candidates, lecture_candidates, all_users_data, limit, margin) ==
    IF ~IsDict(user_profile) \/ ~Truthy(user_profile)
    THEN Return(Dict([tests |-> EmptyList, lectures |-> EmptyList]))
    ELSE Return(HybridRank(user_profile, test_candidates, lecture_candidates, all_users_data,
                           find_similar_users(user_profile, all_users_data, 5), limit, margin))

\* ---------------------------------------------------------------------
\* get_recommendations of app/main.py
\* ---------------------------------------------------------------------
NoResponse == [status |-> 0, detail |-> "", body |-> None]
Response200(body) == [status |-> 200, detail |-> "", body |-> body]
\* raise HTTPException(status_code=500, detail=str(e))
Response500(exc) == [status |-> 500, detail |-> exc, body |-> None]

\* ---------------------------------------------------------------------
\* Inputs of the similarity functions
\* ---------------------------------------------------------------------
SimTargets == {500, 600}
SimListening == {0, 5}
SimReading == {0, 30}
SimTotals == {400}
Scores(t, l, r, a) ==
    [target |-> t, averageListeningScore |-> l, averageReadingScore |-> r, averageTotalScore |-> a]
SimProfiles ==
    {Dict(Scores(t, l, r, a)) : t \in SimTargets, l \in SimListening, r \in SimReading, a \in SimTotals}
    \cup {Dict([target |-> 500, averageTotalScore |-> 400]), EmptyDict, None}

\* ---------------------------------------------------------------------
\* calculate_user_similarity applied to every pair of profiles
\* ---------------------------------------------------------------------
InitSimilarity ==
    /\ pc = "call"
    /\ Idle
    /\ fn = "calculate_user_similarity"
    /\ args \in [user1 : SimProfiles, user2 : SimProfiles]
    /\ ret = FZero

CallSimilarity ==
    /\ pc = "call"
    /\ fn = "calculate_user_similarity"
    /\ ret' = calculate_user_similarity(args.user1, args.user2)
    /\ pc' = "return"
    /\ UNCHANGED <<fn, args, local, requests, tries>>

NextSimilarity == CallSimilarity
SpecSimilarity == InitSimilarity /\ [][NextSimilarity]_vars

\* C2: a profile that has all four required fields has similarity 1 to itself.
C2_SelfSimilarityIsOne ==
    (fn = "calculate_user_similarity" /\ pc = "return" /\ args.user1 = args.user2
        /\ IsDict(args.user1) /\ MissingFields(args.user1) = {})
    => ret = FInt(1)

\* C3: calculate_user_similarity(A, B) equals calculate_user_similarity(B, A)
\* for every pair of profiles, complete or not.
C3_SimilaritySymmetric ==
    (fn = "calculate_user_similarity" /\ pc = "return")
    => ret = calculate_user_similarity(args.user2, args.user1)

\* ---------------------------------------------------------------------
\* find_similar_users applied to lists of peer profiles
\* ---------------------------------------------------------------------
MaxPeers == 3
MaxN == 2
WithId(uid, f) == Dict([k \in DOMAIN f \cup {"userId"} |-> IF k = "userId" THEN uid ELSE f[k]])
PeerPool ==
    { WithId("u1", Scores(600, 5, 30, 400)),
      WithId("u2", Scores(500, 0, 0, 400)),
      WithId("u2", Scores(600, 5, 30, 400)),
      WithId("u3", Scores(600, 5, 30, 400)),
      WithId("u4", [target |-> 500]),
      Dict(Scores(500, 0, 0, 400)) }
RECURSIVE SeqsUpTo(_, _)
SeqsUpTo(S, k) ==
    IF k = 0 THEN {<<>>}
    ELSE LET shorter == SeqsUpTo(S, k - 1)
         IN  shorter \cup {Append(q, x) : q \in {p \in shorter : Len(p) = k - 1}, x \in S}
TargetProfiles == {WithId("u1", Scores(500, 0, 0, 400)), Dict(Scores(500, 0, 0, 400))}

InitNeighbors ==
    /\ pc = "call"
    /\ Idle
    /\ fn = "find_similar_users"
    /\ args \in [target_user_profile : TargetProfiles,
                 all_users_data : {List(q) : q \in SeqsUpTo(PeerPool, MaxPeers)},
                 n : -1..MaxN]
    /\ ret = <<>>

CallNeighbors ==
    /\ pc = "call"
    /\ fn = "find_similar_users"
    /\ ret' = find_similar_users(args.target_user_profile, args.all_users_data, args.n)
    /\ pc' = "return"
    /\ UNCHANGED <<fn, args, local, requests, tries>>

NextNeighbors == CallNeighbors
SpecNeighbors == InitNeighbors /\ [][NextNeighbors]_vars

Returned(f) == fn = f /\ pc = "return"

\* C4: for n >= 0 the result of find_similar_users has at most n entries and
\* none of them carries the target's own userId.
C4_NoSelfAtMostN ==
    (Returned("find_similar_users") /\ args.n >= 0)
    => /\ Len(ret) <= args.n
       /\ \A i \in 1..Len(ret) : ret[i][1] # Get(args.target_user_profile, "userId", "")

\* C4 witness: the target's own profile is among the peers, more peers qualify
\* than n allows, and n entries are returned.
C4_Witness ==
    /\ Returned("find_similar_users")
    /\ args.n > 0
    /\ Len(ret) = args.n
    /\ \E i \in 1..Len(args.all_users_data.v) :
          Get(args.all_users_data.v[i], "userId", "") = Get(args.target_user_profile, "userId", "")
    /\ Cardinality({i \in 1..Len(args.all_users_data.v) :
          PeerIsCandidate(args.all_users_data.v[i], "u1")}) > args.n

\* C5: no peer user id occurs twice in the result of find_similar_users.
C5_Deduplicated ==
    Returned("find_similar_users")
    => \A i, j \in 1..Len(ret) : ret[i][1] = ret[j][1] => i = j

\* the peer at position i has a userId and all four required fields
Complete(i) ==
    /\ IsDict(args.all_users_data.v[i])
    /\ Get(args.all_users_data.v[i], "userId", "") # ""
    /\ MissingFields(args.all_users_data.v[i]) = {}
\* entry k of the result is the peer at position i with its similarity
EntryOf(k, i) ==
    /\ Complete(i)
    /\ ret[k][1] = args.all_users_data.v[i].v.userId
    /\ ret[k][2] = calculate_user_similarity(args.target_user_profile, args.all_users_data.v[i])
\* what each complete peer would contribute to the result
PeerEntries ==
    [i \in 1..Len(args.all_users_data.v) |->
        IF Complete(i)
        THEN <<args.all_users_data.v[i].v.userId,
               calculate_user_similarity(args.target_user_profile, args.all_users_data.v[i])>>
        ELSE <<"", FZero>>]
\* pos assigns the entries of the result to peers, entries of equal
\* similarity in the order of their peers
KeepsInputOrder(pos, entries) ==
    /\ \A k \in 1..Len(ret) : Complete(pos[k]) /\ ret[k] = entries[pos[k]]
    /\ \A k, l \in 1..Len(ret) : (k < l /\ ret[k][2] = ret[l][2]) => pos[k] < pos[l]

\* C22: the result of find_similar_users is in non-increasing similarity
\* order, each entry is a peer with a userId and all four required fields,
\* and entries of equal similarity keep the order of their profiles in the
\* input list.
C22_StableDescending ==
    Returned("find_similar_users") =>
        /\ \A k \in 1..(Len(ret) - 1) : FLe(ret[k + 1][2], ret[k][2])
        /\ LET entries == PeerEntries
           IN  \E pos \in [1..Len(ret) -> 1..Len(args.all_users_data.v)] :
                  KeepsInputOrder(pos, entries)

\* C22 witness: two peers with different ids are equally similar to the
\* target, an incomplete profile stands between them, and the result holds
\* the two in their input order
C22_Witness ==
    /\ Returned("find_similar_users")
    /\ Len(ret) = 2
    /\ Len(args.all_users_data.v) = 3
    /\ ret[1][2] = ret[2][2]
    /\ ret[1][1] # ret[2][1]
    /\ EntryOf(1, 1)
    /\ ~Complete(2)
    /\ EntryOf(2, 3)

\* ---------------------------------------------------------------------
\* is_cold_start_user applied to profiles of every shape
\* ---------------------------------------------------------------------
MaxHistory == 3
MaxProgress == 4
TestIds == <<"t1", "t2", "t3">>
LectureIds == <<"l1", "l2", "l3", "l4">>
NthTestId(i) == TestIds[((i - 1) % Len(TestIds)) + 1]
TestRecord(test_id, attempts, avg_score) ==
    Dict([testId |-> test_id, attempts |-> attempts, avgScore |-> avg_score])
HistoryOfLen(k) == List([i \in 1..k |-> TestRecord(NthTestId(i), i, 600)])
ProgressOfSize(k) ==
    Dict([id \in {LectureIds[((i - 1) % Len(LectureIds)) + 1] : i \in 1..k} |-> Dict([percent |-> 40])])
Absent == [ty |-> "absent", v |-> <<>>]
GateHistories == {HistoryOfLen(k) : k \in 0..MaxHistory} \cup {None, EmptyDict, Absent}
GateProgresses == {ProgressOfSize(k) : k \in 0..MaxProgress} \cup {None, EmptyList, Absent}
GateProfile(th, lp) ==
    Dict([k \in {"userId"} \cup (IF th = Absent THEN {} ELSE {"testHistory"})
                           \cup (IF lp = Absent THEN {} ELSE {"learningProgress"}) |->
            IF k = "userId" THEN "u1" ELSE IF k = "testHistory" THEN th ELSE lp])
GateProfiles == {GateProfile(th, lp) : th \in GateHistories, lp \in GateProgresses} \cup {None, EmptyList}

InitColdGate ==
    /\ pc = "call"
    /\ Idle
    /\ fn = "is_cold_start_user"
    /\ args \in [user_profile : GateProfiles]
    /\ ret = FALSE

CallColdGate ==
    /\ pc = "call"
    /\ fn = "is_cold_start_user"
    /\ ret' = is_cold_start_user(args.user_profile)
    /\ pc' = "return"
    /\ UNCHANGED <<fn, args, local, requests, tries>>

NextColdGate == CallColdGate
SpecColdGate == InitColdGate /\ [][NextColdGate]_vars

\* number of testHistory entries and of learningProgress keys, a value of the
\* wrong type or a missing key counting as none
HistoryCount(p) ==
    IF Has(p, "testHistory") /\ IsList(p.v.testHistory) THEN Len(p.v.testHistory.v) ELSE 0
ProgressCount(p) ==
    IF Has(p, "learningProgress") /\ IsDict(p.v.learningProgress)
    THEN Cardinality(DOMAIN p.v.learningProgress.v) ELSE 0

\* C6: is_cold_start_user is true exactly for a profile that is no dictionary
\* or has fewer than 2 tests in testHistory and fewer than 3 keys in
\* learningProgress, a testHistory that is no list and a learningProgress that
\* is no dictionary counting as empty.
C6_ColdStartGate ==
    Returned("is_cold_start_user")
    => (ret <=> (~IsDict(args.user_profile)
                 \/ (HistoryCount(args.user_profile) < 2 /\ ProgressCount(args.user_profile) < 3)))

\* C6 witness: one threshold is met and the other is not (a testHistory that
\* is no list, three lectures started), and the user is not cold.
C6_Witness ==
    /\ Returned("is_cold_start_user")
    /\ IsDict(args.user_profile)
    /\ Has(args.user_profile, "testHistory")
    /\ ~IsList(args.user_profile.v.testHistory)
    /\ ProgressCount(args.user_profile) = 3
    /\ ret = FALSE

\* ---------------------------------------------------------------------
\* get_topic_deficiency applied to lists of topic statistics
\* ---------------------------------------------------------------------
MaxStats == 2
TopicNames == {"grammar", "vocabulary"}
TopicCounts == {<<0, 0>>, <<9, 1>>, <<1, 3>>, <<4, 1>>}
TopicStat(name, correct, incorrect) ==
    Dict([topicName |-> name, totalCorrect |-> correct, totalIncorrect |-> incorrect])
StatPool == {TopicStat(name, c[1], c[2]) : name \in TopicNames, c \in TopicCounts} \cup {None}
DesiredRates == {F(8, 10), F(1, 2)}

InitDeficiency ==
    /\ pc = "call"
    /\ Idle
    /\ fn = "get_topic_deficiency"
    /\ args \in [topic : TopicNames,
                 topic_stats : {List(q) : q \in SeqsUpTo(StatPool, MaxStats)} \cup {None},
                 desired_rate : DesiredRates]
    /\ ret = FZero

CallDeficiency ==
    /\ pc = "call"
    /\ fn = "get_topic_deficiency"
    /\ ret' = get_topic_deficiency(args.topic, args.topic_stats, args.desired_rate)
    /\ pc' = "return"
    /\ UNCHANGED <<fn, args, local, requests, tries>>

NextDeficiency == CallDeficiency
SpecDeficiency == InitDeficiency /\ [][NextDeficiency]_vars

\* positions of the entries of a statistics list that carry the topic's name
Matching(topic, topic_stats) ==
    IF IsList(topic_stats)
    THEN {i \in 1..Len(topic_stats.v) :
            IsDict(topic_stats.v[i]) /\ Get(topic_stats.v[i], "topicName", "") = topic}
    ELSE {}
First(S) == CHOOSE i \in S : \A j \in S : i <= j

\* C9: get_topic_deficiency is decided by the first entry named like the
\* topic: max(0, desiredRate - correct/(correct+incorrect)) when that entry has
\* attempts, 0.5 when it has none or when no entry matches; later entries of
\* the same name do not matter.
C9_FirstMatchDeficiency ==
    Returned("get_topic_deficiency")
    => LET hits == Matching(args.topic, args.topic_stats)
       IN  IF hits = {} THEN ret = F(1, 2)
           ELSE LET item  == args.topic_stats.v[First(hits)]
                    total == item.v.totalCorrect + item.v.totalIncorrect
                IN  IF total > 0
                    THEN ret = FMax(FZero, FSub(args.desired_rate,
                                                FDiv(FInt(item.v.totalCorrect), FInt(total))))
                    ELSE ret = F(1, 2)

\* C9 witness: the first entry of the topic has no attempts, a later entry of
\* the same topic has attempts and a deficiency other than 0.5, and the result
\* is 0.5.
C9_Witness ==
    /\ Returned("get_topic_deficiency")
    /\ \E i, j \in Matching(args.topic, args.topic_stats) :
          /\ i = First(Matching(args.topic, args.topic_stats))
          /\ i < j
          /\ args.topic_stats.v[i].v.totalCorrect + args.topic_stats.v[i].v.totalIncorrect = 0
          /\ EntryDeficiency(args.topic_stats.v[j], args.desired_rate) # F(1, 2)
    /\ ret = F(1, 2)

\* ---------------------------------------------------------------------
\* score_candidate applied to profiles, candidates and neighbor lists
\* ---------------------------------------------------------------------
ScoreProfiles ==
    { None,
      Dict([userId |-> "u1", target |-> 700, averageTotalScore |-> 650,
            topicStats |-> List(<<TopicStat("grammar", 9, 1), TopicStat("vocabulary", 1, 3)>>)]),
      Dict([userId |-> "u1", target |-> 600, averageTotalScore |-> 700]) }
ScoreCandidates ==
    { None,
      Dict([testId |-> "t1", name |-> "Test 1", difficulty |-> 650, topics |-> List(<<"grammar">>)]),
      Dict([testId |-> "t1", name |-> "Test 1", difficulty |-> 750, topics |-> List(<<"grammar">>)]),
      Dict([id |-> "t1", name |-> "Test 1", difficulty |-> 650, topics |-> List(<<"vocabulary">>)]),
      Dict([testId |-> "", id |-> "t1", name |-> "Test 1", difficulty |-> 650, topics |-> EmptyList]),
      Dict([name |-> "Test", difficulty |-> 650, topics |-> List(<<"vocabulary">>)]),
      Dict([lectureId |-> "l1", name |-> "Lecture 1", topics |-> List(<<"vocabulary", "grammar">>)]),
      Dict([name |-> "Lecture", topics |-> List(<<"vocabulary">>)]) }
ScorePeers ==
    List(<< Dict([userId |-> "u2",
                  testHistory |-> List(<<TestRecord("t1", 4, 900)>>),
                  learningProgress |-> Dict([l1 |-> Dict([percent |-> 120])])]),
            Dict([userId |-> "u3",
                  testHistory |-> List(<<TestRecord("t2", 1, 500), TestRecord("t1", 1, 500)>>),
                  learningProgress |-> Dict([l1 |-> Num(50)])]) >>)
ScoreNeighbors ==
    { <<>>, << <<"u2", F(9, 10)>> >>, << <<"u2", F(9, 10)>>, <<"u3", F(1, 2)>> >> }

InitScore ==
    /\ pc = "call"
    /\ Idle
    /\ fn = "score_candidate"
    /\ args \in [user_profile : ScoreProfiles, candidate : ScoreCandidates,
                 similar_users : ScoreNeighbors, all_users_data : {ScorePeers},
                 candidate_type : {"test", "lecture"}, margin : {TARGET_MARGIN},
                 weight_topic : {FInt(WEIGHT_TOPIC), FZero},
                 weight_collab : {FInt(WEIGHT_COLLAB), FInt(1)}]
    /\ ret = FZero

CallScore ==
    /\ pc = "call"
    /\ fn = "score_candidate"
    /\ ret' = score_candidate(args.user_profile, args.candidate, args.similar_users,
                              args.all_users_data, args.candidate_type, args.margin,
                              args.weight_topic, args.weight_collab)
    /\ pc' = "return"
    /\ UNCHANGED <<fn, args, local, requests, tries>>

NextScore == CallScore
SpecScore == InitScore /\ [][NextScore]_vars

\* neither the type-specific id field nor the generic id field is present and
\* non-empty
NoIdResolvable(candidate, candidate_type) ==
    LET specific == IF candidate_type = "test" THEN "testId" ELSE "lectureId"
    IN  /\ ~(Has(candidate, specific) /\ candidate.v[specific] # "")
        /\ ~(Has(candidate, "id") /\ candidate.v.id # "")

ScoredWellFormed ==
    /\ Returned("score_candidate")
    /\ IsDict(args.user_profile)
    /\ IsDict(args.candidate)
    /\ ResolveCandidateId(args.candidate, args.candidate_type) # ""
CollabOfCall ==
    get_collaborative_score(ResolveCandidateId(args.candidate, args.candidate_type),
                            args.similar_users, args.all_users_data, args.candidate_type)

StatedBaseDifficulty ==
    IF args.user_profile.v.averageTotalScore < args.user_profile.v.target
    THEN args.user_profile.v.averageTotalScore
    ELSE args.user_profile.v.target + args.margin
StatedDifficultyScore ==
    IF Abs(args.candidate.v.difficulty - StatedBaseDifficulty) >= 100 THEN FZero
    ELSE F(100 - Abs(args.candidate.v.difficulty - StatedBaseDifficulty), 100)
ScoredTestWithDifficulty ==
    /\ ScoredWellFormed
    /\ args.candidate_type = "test"
    /\ Has(args.candidate, "difficulty")
\* the same call for the same candidate with another difficulty
ScoreAtDifficulty(difficulty) ==
    score_candidate(args.user_profile, Dict([args.candidate.v EXCEPT !.difficulty = difficulty]),
                    args.similar_users, args.all_users_data, args.candidate_type, args.margin,
                    args.weight_topic, args.weight_collab)

MaxLimit == 3
UserIds == {"u1"}
Limits == (-1)..MaxLimit

CatalogTest(id, name, difficulty, attempts, topics) ==
    Dict([testId |-> id, name |-> name, difficulty |-> difficulty,
          totalUserAttempt |-> attempts, topics |-> List(topics)])
CatalogLecture(id, name, topics) ==
    Dict([lectureId |-> id, name |-> name, topics |-> List(topics)])
Progress(percent) == Dict([percent |-> percent])

TestCatalog ==
    List(<< CatalogTest("t1", "Test 1", 650, 40, <<"grammar">>),
            CatalogTest("t2", "Test 2", 5, 10, <<"vocabulary">>),
            CatalogTest("t3", "Test 3", 700, 0, <<"grammar", "vocabulary">>) >>)
LectureCatalog ==
    List(<< CatalogLecture("l1", "Lecture 1", <<"grammar">>),
            CatalogLecture("l2", "Lecture 2", <<"vocabulary">>),
            CatalogLecture("l3", "Lecture 3", <<>>) >>)

\* catalogs with an entry whose id is empty
TestCatalogWithUnidentified ==
    List(<< CatalogTest("t1", "Test 1", 650, 40, <<"grammar">>),
            CatalogTest("", "Test 4", 660, 5, <<"grammar">>) >>)
LectureCatalogWithUnidentified ==
    List(<< CatalogLecture("", "Lecture 4", <<"vocabulary">>),
            CatalogLecture("l1", "Lecture 1", <<"grammar">>) >>)

\* profiles the backend may hold for the user
NewUser ==
    Dict([userId |-> "u1", target |-> 600, testHistory |-> EmptyList, learningProgress |-> EmptyDict])
BeginnerUser ==
    Dict([userId |-> "u1", target |-> 600,
          testHistory |-> List(<<TestRecord("t1", 1, 400)>>),
          learningProgress |-> Dict([l1 |-> Progress(40)])])
ActiveUser ==
    Dict([userId |-> "u1", target |-> 700, averageTotalScore |-> 650,
          averageListeningScore |-> 300, averageReadingScore |-> 350,
          testHistory |-> List(<<TestRecord("t1", 2, 600), TestRecord("t3", 1, 720)>>),
          learningProgress |-> Dict([l1 |-> Progress(40)]),
          topicStats |-> List(<<TopicStat("grammar", 9, 1), TopicStat("vocabulary", 1, 3)>>)])
ActiveUserWithoutId ==
    Dict([target |-> 700, averageTotalScore |-> 650,
          testHistory |-> List(<<TestRecord("t1", 2, 600), TestRecord("t3", 1, 720)>>)])
UserWithNullHistory ==
    Dict([userId |-> "u1", target |-> 600, testHistory |-> None])

PeerProfiles ==
    List(<< Dict([userId |-> "u2", target |-> 700, averageTotalScore |-> 640,
                  averageListeningScore |-> 350, averageReadingScore |-> 300,
                  testHistory |-> List(<<TestRecord("t1", 4, 900)>>),
                  learningProgress |-> Dict([l2 |-> Progress(120)])]),
            ActiveUser,
            Dict([userId |-> "u3", target |-> 500, averageTotalScore |-> 400,
                  averageListeningScore |-> 200, averageReadingScore |-> 200,
                  testHistory |-> List(<<TestRecord("t3", 1, 500)>>),
                  learningProgress |-> Dict([l1 |-> Num(50)])]) >>)

Envelope(data) == Dict([data |-> data])

\* what the backend may do with each of the four requests
ProfileOutcomes ==
    { Answer(200, Envelope(p)) :
        p \in {NewUser, BeginnerUser, ActiveUser, ActiveUserWithoutId, UserWithNullHistory} }
    \cup { Answer(200, NewUser), Answer(200, EmptyList),
           Answer(404, None), Answer(500, None), ConnectionError }
TestOutcomes ==
    { Answer(200, Envelope(TestCatalog)), Answer(200, Envelope(TestCatalogWithUnidentified)),
      Answer(200, Envelope(None)), Answer(500, None), ConnectionError }
LectureOutcomes ==
    { Answer(200, Envelope(LectureCatalog)), Answer(200, Envelope(LectureCatalogWithUnidentified)),
      Answer(200, EmptyList), Answer(503, None) }
PeerOutcomes ==
    { Answer(200, Envelope(PeerProfiles)), Answer(200, EmptyList), Answer(500, None) }

InitRequest ==
    /\ pc = "get_user_profile"
    /\ fn = "get_recommendations"
    /\ args \in [user_id : UserIds, limit : Limits]
    /\ ret = NoResponse
    /\ local = NoLocals
    /\ requests = <<>>
    /\ tries = 0

\* one attempt of a backend call is logged with the answer it got
Sent(endpoint, outcome) ==
    requests' = Append(requests, [endpoint |-> endpoint, outcome |-> outcome])

\* the backoff decorator starts another attempt of the same call
Again == tries' = tries + 1 /\ UNCHANGED <<pc, ret, local>>

\* the except clause of get_recommendations
Fail(exc) == pc' = "done" /\ ret' = Response500(exc) /\ tries' = 0 /\ UNCHANGED local

\* the handler goes on to its next await
Goto(next, locals) == pc' = next /\ local' = locals /\ tries' = 0 /\ UNCHANGED ret

\* the handler returns
Respond(result) ==
    IF Raised(result) THEN Fail(result.exc)
    ELSE pc' = "done" /\ ret' = Response200(result.v) /\ tries' = 0 /\ UNCHANGED local

\* mutant of Dispatch: every identified user is sent down the hybrid path
Dispatch_AlwaysHybrid(profile_response) ==
    IF Raised(profile_response) THEN Fail(profile_response.exc)
    ELSE IF ~HasUserId(Get(profile_response.v, "data", EmptyDict)) THEN Fail("KeyError")
    ELSE Goto("hybrid:get_test_candidates",
              [local EXCEPT !.user_profile = Get(profile_response.v, "data", EmptyDict)])

\* after the profile fetch: user_profile = response.get('data', {}), the
\* cold-start decision, and the first statement of the chosen path, which
\* reads user_profile['userId']
Dispatch(profile_response) ==
    IF Raised(profile_response) THEN Fail(profile_response.exc)
    ELSE IF ~HasUserId(Get(profile_response.v, "data", EmptyDict)) THEN Fail("KeyError")
    ELSE IF is_cold_start_user(Get(profile_response.v, "data", EmptyDict))
    THEN Goto("cold:get_test_candidates",
              [local EXCEPT !.user_profile = Get(profile_response.v, "data", EmptyDict)])
    ELSE Goto("hybrid:get_test_candidates",
              [local EXCEPT !.user_profile = Get(profile_response.v, "data", EmptyDict)])

FetchUserProfile ==
    /\ pc = "get_user_profile"
    /\ \E outcome \in ProfileOutcomes :
         /\ Sent("/users/{user_id}/profile", outcome)
         /\ IF Retries(make_internal_api_request(outcome), tries + 1) THEN Again
            ELSE Dispatch(get_user_profile(make_internal_api_request(outcome), args.user_id))
    /\ UNCHANGED <<fn, args>>

\* mutant of KeepTests: a failed catalog fetch counts as an empty catalog
KeepTests_EmptyOnFailure(r, next) ==
    IF Raised(r) THEN Goto(next, [local EXCEPT !.test_candidates = EmptyList])
    ELSE Goto(next, [local EXCEPT !.test_candidates = r.v])

\* a catalog fetch of either path: the list is kept and the handler goes on
KeepTests(r, next) ==
    IF Raised(r) THEN Fail(r.exc) ELSE Goto(next, [local EXCEPT !.test_candidates = r.v])

ColdFetchTests ==
    /\ pc = "cold:get_test_candidates"
    /\ \E outcome \in TestOutcomes :
         /\ Sent("/tests/candidates", outcome)
         /\ IF Retries(make_internal_api_request(outcome), tries + 1) THEN Again
            ELSE KeepTests(get_test_candidates(make_internal_api_request(outcome)),
                           "cold:get_lecture_candidates")
    /\ UNCHANGED <<fn, args>>

ColdFetchLectures ==
    /\ pc = "cold:get_lecture_candidates"
    /\ \E outcome \in LectureOutcomes :
         /\ Sent("/lectures/candidates", outcome)
         /\ IF Retries(make_internal_api_request(outcome), tries + 1) THEN Again
            ELSE IF Raised(get_lecture_candidates(make_internal_api_request(outcome)))
            THEN Fail("HTTPException")
            ELSE Respond(generate_cold_start_recommendations(
                             local.user_profile, local.test_candidates,
                             get_lecture_candidates(make_internal_api_request(outcome)).v,
                             args.limit))
    /\ UNCHANGED <<fn, args>>

HybridFetchTests ==
    /\ pc = "hybrid:get_test_candidates"
    /\ \E outcome \in TestOutcomes :
         /\ Sent("/tests/candidates", outcome)
         /\ IF Retries(make_internal_api_request(outcome), tries + 1) THEN Again
            ELSE KeepTests(get_test_candidates(make_internal_api_request(outcome)),
                           "hybrid:get_lecture_candidates")
    /\ UNCHANGED <<fn, args>>

KeepLectures(r, next) ==
    IF Raised(r) THEN Fail(r.exc) ELSE Goto(next, [local EXCEPT !.lecture_candidates = r.v])

HybridFetchLectures ==
    /\ pc = "hybrid:get_lecture_candidates"
    /\ \E outcome \in LectureOutcomes :
         /\ Sent("/lectures/candidates", outcome)
         /\ IF Retries(make_internal_api_request(outcome), tries + 1) THEN Again
            ELSE KeepLectures(get_lecture_candidates(make_internal_api_request(outcome)),
                              "hybrid:get_all_user_profiles_for_similarity")
    /\ UNCHANGED <<fn, args>>

HybridFetchProfiles ==
    /\ pc = "hybrid:get_all_user_profiles_for_similarity"
    /\ \E outcome \in PeerOutcomes :
         /\ Sent("/users/profiles-for-similarity", outcome)
         /\ IF Retries(make_internal_api_request(outcome), tries + 1) THEN Again
            ELSE IF Raised(get_all_user_profiles_for_similarity(make_internal_api_request(outcome)))
            THEN Fail("HTTPException")
            ELSE Respond(recommend_hybrid(
                             local.user_profile, local.test_candidates, local.lecture_candidates,
                             get_all_user_profiles_for_similarity(make_internal_api_request(outcome)).v,
                             args.limit, TARGET_MARGIN))
    /\ UNCHANGED <<fn, args>>

NextRequest ==
    \/ FetchUserProfile
    \/ ColdFetchTests
    \/ ColdFetchLectures
    \/ HybridFetchTests
    \/ HybridFetchLectures
    \/ HybridFetchProfiles
SpecRequest == InitRequest /\ [][NextRequest]_vars

\* the request has ended, with a result or with a failure
Finished == fn = "get_recommendations" /\ pc = "done"
Served == Finished /\ ret.status = 200
ProfileNotFound ==
    /\ Len(requests) > 0
    /\ requests[1].outcome.kind = "answer"
    /\ requests[1].outcome.status = 404

\* C1: a request whose profile fetch is answered "not found" (404) does not
\* fail: it ends with a result that carries userId, recommendedTests and
\* recommendedLectures.
C1_UnknownUserIsServed ==
    (Finished /\ ProfileNotFound) =>
        /\ ret.status = 200
        /\ IsDict(ret.body)
        /\ {"userId", "recommendedTests", "recommendedLectures"} \subseteq DOMAIN ret.body.v

\* the backend did not deliver: the connection failed or the answer is an
\* error status ("not found" for the profile is the case of C1)
FetchFailed(request) ==
    \/ request.outcome.kind = "connection_error"
    \/ /\ request.outcome.status >= 400
       /\ ~(request.endpoint = "/users/{user_id}/profile" /\ request.outcome.status = 404)

\* C14: when the fetch of the profile, of a catalog or of the peer profiles
\* fails, the request ends there in a failure and returns no result, partial
\* or otherwise.
C14_FailedFetchAbortsRequest ==
    \A i \in 1..Len(requests) :
        FetchFailed(requests[i]) =>
            /\ i = Len(requests)
            /\ Finished
            /\ ret.status = 500
            /\ ~IsDict(ret.body)

\* C14 witness: the profile and both catalogs were fetched, the fetch of the
\* peer profiles failed, and the request failed
C14_Witness ==
    /\ Finished
    /\ Len(requests) = 4
    /\ FetchFailed(requests[4])
    /\ IsList(local.test_candidates) /\ Len(local.test_candidates.v) > 0
    /\ ret.status = 500

\* C15: a fetch that fails with a connection error is attempted again, up to
\* max_tries attempts in all, before the failure reaches the request.
C15_ConnectionErrorIsRetried ==
    (Finished /\ Len(requests) > 0 /\ requests[Len(requests)].outcome.kind = "connection_error") =>
        Cardinality({i \in 1..Len(requests) :
                        requests[i].endpoint = requests[Len(requests)].endpoint}) = max_tries

\* the profile the backend delivered
DeliveredProfile == requests[1].outcome.body.v.data
AllFetchesDelivered == \A i \in 1..Len(requests) : requests[i].outcome.status = 200

\* C16: a profile whose testHistory is not a sequence does not make the
\* request raise: with every fetch delivered, the request returns a result.
C16_MalformedHistoryIsServed ==
    (/\ Finished
     /\ AllFetchesDelivered
     /\ IsDict(requests[1].outcome.body)
     /\ Has(requests[1].outcome.body, "data")
     /\ IsDict(DeliveredProfile)
     /\ Has(DeliveredProfile, "userId")
     /\ Has(DeliveredProfile, "testHistory")
     /\ ~IsList(DeliveredProfile.v.testHistory))
    => ret.status = 200

HybridServed == Served /\ Len(requests) = 4
\* the names of the returned entries
ReturnedNames(list) == {list.v[i].v.name : i \in 1..Len(list.v)}
\* the catalog entries for which score_candidate resolves no id
Unidentified(catalog, candidate_type) ==
    {i \in 1..Len(catalog.v) : ResolveCandidateId(catalog.v[i], candidate_type) = ""}

\* C18: on the hybrid path a test or lecture for which no id can be resolved
\* is in neither returned list, for every catalog and every limit.
C18_UnidentifiedIsDropped ==
    HybridServed =>
        /\ \A i \in Unidentified(local.test_candidates, "test") :
             local.test_candidates.v[i].v.name \notin ReturnedNames(ret.body.v.recommendedTests)
        /\ \A i \in Unidentified(local.lecture_candidates, "lecture") :
             local.lecture_candidates.v[i].v.name \notin ReturnedNames(ret.body.v.recommendedLectures)

\* the testIds of the user's history
TakenIds(user_profile) ==
    {user_profile.v.testHistory.v[i].v.testId : i \in 1..Len(user_profile.v.testHistory.v)}
ColdServed == Served /\ is_cold_start_user(local.user_profile)

\* C7: on the cold-start path no test whose testId is in the user's
\* testHistory is in the returned test list.
C7_ColdExcludesTakenTests ==
    ColdServed =>
        \A i \in 1..Len(ret.body.v.recommendedTests.v) :
            ret.body.v.recommendedTests.v[i].v.testId \notin TakenIds(local.user_profile)

\* C7 witness: a cold-start user who took a test of the fetched catalog is
\* served a non-empty test list.
C7_Witness ==
    /\ ColdServed
    /\ \E i \in 1..Len(local.test_candidates.v) :
         local.test_candidates.v[i].v.testId \in TakenIds(local.user_profile)
    /\ Len(ret.body.v.recommendedTests.v) > 0

\* the largest totalUserAttempt of the fetched catalog
CatalogMaxAttempts ==
    CHOOSE m \in {local.test_candidates.v[i].v.totalUserAttempt : i \in 1..Len(local.test_candidates.v)} :
        \A i \in 1..Len(local.test_candidates.v) : local.test_candidates.v[i].v.totalUserAttempt <= m
\* popularity and difficulty match of a catalog test as the claim states them
StatedPopularity(test) ==
    IF CatalogMaxAttempts = 0 THEN FZero ELSE F(test.v.totalUserAttempt, CatalogMaxAttempts)
StatedDifficultyMatch(test) ==
    FSub(FInt(1),
         FMin(FInt(1), F(Abs(test.v.difficulty - (local.user_profile.v.target \div 100)), 10)))
StatedColdScore(test) ==
    FAdd(FMul(F(7, 10), StatedPopularity(test)), FMul(F(3, 10), StatedDifficultyMatch(test)))
\* the catalog tests the user has not taken, and those of them that are returned
Untaken ==
    {i \in 1..Len(local.test_candidates.v) :
        local.test_candidates.v[i].v.testId \notin TakenIds(local.user_profile)}
ReturnedTests == ret.body.v.recommendedTests.v
IsReturned(i) == \E k \in 1..Len(ReturnedTests) : ReturnedTests[k].v.testId = local.test_candidates.v[i].v.testId

\* C20: on the cold-start path every returned test is an untaken catalog test
\* and carries the score 0.7 * popularity + 0.3 * difficultyMatch, the list is
\* in non-increasing score order, and no untaken test left out scores higher
\* than a returned one.
C20_ColdRanking ==
    ColdServed =>
        /\ \A k \in 1..Len(ReturnedTests) :
             \E i \in Untaken :
                /\ ReturnedTests[k].v.testId = local.test_candidates.v[i].v.testId
                /\ ReturnedTests[k].v.score = StatedColdScore(local.test_candidates.v[i])
        /\ \A k \in 1..(Len(ReturnedTests) - 1) :
             FLe(ReturnedTests[k + 1].v.score, ReturnedTests[k].v.score)
        /\ \A i \in Untaken :
             ~IsReturned(i) =>
                \A k \in 1..Len(ReturnedTests) :
                   FLe(StatedColdScore(local.test_candidates.v[i]), ReturnedTests[k].v.score)

\* C20 witness: the user took the most popular test, one of the two other
\* tests is returned and the other is left out with a strictly lower score
C20_Witness ==
    /\ ColdServed
    /\ Len(local.test_candidates.v) = 3
    /\ Cardinality(Untaken) = 2
    /\ Len(ReturnedTests) = 1
    /\ ReturnedTests[1].v.score # FZero
    /\ \E i \in Untaken :
         /\ ~IsReturned(i)
         /\ FLt(StatedColdScore(local.test_candidates.v[i]), ReturnedTests[1].v.score)
    /\ \E i \in 1..3 : i \notin Untaken /\ local.test_candidates.v[i].v.totalUserAttempt = CatalogMaxAttempts

\* C8: for every integer limit, on both paths, the returned test list and the
\* returned lecture list each have at most limit entries.
C8_AtMostLimit ==
    Served =>
        /\ Len(ret.body.v.recommendedTests.v) <= args.limit
        /\ Len(ret.body.v.recommendedLectures.v) <= args.limit

\* the peer profiles the backend delivered on the hybrid path, and the
\* neighbors found among them
DeliveredPeers == get_all_user_profiles_for_similarity(make_internal_api_request(requests[4].outcome)).v
HybridScoreOf(candidate, candidate_type) ==
    score_candidate(local.user_profile, candidate,
                    find_similar_users(local.user_profile, DeliveredPeers, 5), DeliveredPeers,
                    candidate_type, TARGET_MARGIN, FInt(WEIGHT_TOPIC), FInt(WEIGHT_COLLAB))
\* the catalog tests that are not more than 20 points below the user's average
PassingTests ==
    {i \in 1..Len(local.test_candidates.v) :
        Get(local.test_candidates.v[i], "difficulty", 0) >= Get(local.user_profile, "averageTotalScore", 0) - 20}
AllLectures == 1..Len(local.lecture_candidates.v)
ReturnedLectures == ret.body.v.recommendedLectures.v
NonIncreasing(list) == \A k \in 1..(Len(list) - 1) : FLe(list[k + 1].v.score, list[k].v.score)
\* the returned list is made of entries of the scored set, with their scores,
\* and no entry of the scored set left out scores higher than a returned one
TopOf(list, catalog, scored, candidate_type) ==
    /\ \A k \in 1..Len(list) :
         \E i \in scored :
            /\ list[k].v.name = catalog.v[i].v.name
            /\ list[k].v.score = HybridScoreOf(catalog.v[i], candidate_type)
    /\ \A i \in scored :
         (\A k \in 1..Len(list) : list[k].v.name # catalog.v[i].v.name) =>
            \A k \in 1..Len(list) : FLe(HybridScoreOf(catalog.v[i], candidate_type), list[k].v.score)
    /\ args.limit >= 0 => Len(list) = MinInt(args.limit, Cardinality(scored))

\* C21: on the hybrid path only tests with difficulty >= averageTotalScore - 20
\* are scored and every lecture is scored; each returned list is in
\* non-increasing score order and holds the highest-scoring entries of its
\* scored set, tests the user has taken included.
C21_HybridRanking ==
    HybridServed =>
        /\ TopOf(ReturnedTests, local.test_candidates, PassingTests, "test")
        /\ TopOf(ReturnedLectures, local.lecture_candidates, AllLectures, "lecture")
        /\ NonIncreasing(ReturnedTests)
        /\ NonIncreasing(ReturnedLectures)

\* C21 witness: of three catalog tests one is too easy for the user; with
\* limit 3 the two others are returned, a test the user has taken first
C21_Witness ==
    /\ HybridServed
    /\ args.limit = 3
    /\ Len(local.test_candidates.v) = 3
    /\ Cardinality(PassingTests) = 2
    /\ Len(ReturnedTests) = 2
    /\ ReturnedTests[1].v.testId \in TakenIds(local.user_profile)
    /\ FLt(ReturnedTests[2].v.score, ReturnedTests[1].v.score)
    /\ Len(ReturnedLectures) = 3

\* the four fetches in the order of the handler, and those made so far
Endpoints ==
    << "/users/{user_id}/profile", "/tests/candidates", "/lectures/candidates",
       "/users/profiles-for-similarity" >>
EndpointsSoFar == [i \in 1..Len(requests) |-> requests[i].endpoint]
ColdSteps == {"cold:get_test_candidates", "cold:get_lecture_candidates"}
HybridSteps ==
    {"hybrid:get_test_candidates", "hybrid:get_lecture_candidates",
     "hybrid:get_all_user_profiles_for_similarity"}
\* the path agrees with the decision, every fetch is made at most once and in
\* order, the peer profiles are fetched on the hybrid path only, and a result
\* is computed only after all fetches of the path were delivered
OnePathState ==
    /\ Len(requests) <= Len(Endpoints)
    /\ EndpointsSoFar = SubSeq(Endpoints, 1, Len(requests))
    /\ pc = "get_user_profile" => local = NoLocals
    /\ pc \in ColdSteps => is_cold_start_user(local.user_profile)
    /\ pc \in HybridSteps => ~is_cold_start_user(local.user_profile)
    /\ Len(requests) = 4 => ~is_cold_start_user(local.user_profile)
    /\ pc # "done" => ret = NoResponse
    /\ ret.status = 200 =>
         /\ AllFetchesDelivered
         /\ Len(requests) = IF is_cold_start_user(local.user_profile) THEN 3 ELSE 4
\* a path once entered is left only for the end of the request, and the
\* profile the decision was taken on is not replaced
OnePathStep ==
    /\ pc \in ColdSteps => pc' \in ColdSteps \cup {"done"}
    /\ pc \in HybridSteps => pc' \in HybridSteps \cup {"done"}
    /\ pc # "get_user_profile" => local'.user_profile = local.user_profile
    /\ Len(requests') = Len(requests) + 1

\* C23: the cold-start decision is taken once, after the profile fetch, and
\* exactly one path runs; each catalog is fetched exactly once on either path,
\* all fetches of the path complete before anything is scored, and the peer
\* profiles are fetched on the hybrid path only.
C23_OnePathOneFetchEach == []OnePathState /\ [][OnePathStep]_vars

\* C23 witness: a hybrid request was served after its four fetches
C23_Witness ==
    /\ Served
    /\ ~is_cold_start_user(local.user_profile)
    /\ EndpointsSoFar = Endpoints
    /\ Len(ReturnedTests) > 0

\* a cold-start request was served after three fetches, none of them of the
\* peer profiles
C23_ColdWitness ==
    /\ ColdServed
    /\ EndpointsSoFar = SubSeq(Endpoints, 1, 3)
    /\ Len(ReturnedTests) > 0

\* ---------------------------------------------------------------------
\* get_collaborative_score applied to candidates, neighbor lists and peers
\* ---------------------------------------------------------------------
MaxAttemptCount == 6
AvgScores == {500, 900, 990}
Percents == {-10, 0, 50, 120}
CollabPeer(uid, history, progress) ==
    Dict([userId |-> uid, testHistory |-> List(history), learningProgress |-> progress])
\* the peer u2 with one record of t1, or with one progress entry of l1
CollabPeersWithTest ==
    {CollabPeer("u2", <<TestRecord("t2", 1, 700), TestRecord("t1", a, s)>>, EmptyDict) :
        a \in 0..MaxAttemptCount, s \in AvgScores}
CollabPeersWithPercent ==
    {CollabPeer("u2", <<>>, Dict([l1 |-> Progress(p)])) : p \in Percents}
    \cup {CollabPeer("u2", <<>>, Dict([l2 |-> Progress(50)]))}
CollabPeersWithNumber ==
    {CollabPeer("u2", <<>>, Dict([l1 |-> Num(p)])) : p \in Percents \ {0}}
CollabPeersWithItems ==
    {CollabPeer("u2", <<>>, Dict([items |-> List(<<Dict([l1 |-> Progress(50)])>>)]))}
CollabPeerU3 ==
    CollabPeer("u3", <<TestRecord("t1", 1, 500)>>, Dict([l1 |-> Progress(80), l2 |-> Progress(10)]))
CollabNeighbors ==
    { <<>>, << <<"u2", FInt(1)>> >>, << <<"u2", F(9, 10)>>, <<"u3", F(1, 2)>> >>,
      << <<"u4", F(9, 10)>>, <<"u2", F(1, 2)>> >> }
CollabCandidates ==
    { [candidate_id |-> "t1", candidate_type |-> "test"],
      [candidate_id |-> "l1", candidate_type |-> "lecture"],
      [candidate_id |-> "t9", candidate_type |-> "test"],
      [candidate_id |-> "", candidate_type |-> "lecture"] }

InitCollab ==
    /\ pc = "call"
    /\ Idle
    /\ fn = "get_collaborative_score"
    /\ \E c \in CollabCandidates, n \in CollabNeighbors :
         \E peers \in {CollabPeersWithTest, CollabPeersWithPercent,
                        CollabPeersWithNumber, CollabPeersWithItems} :
            \E u2 \in peers :
               args = [candidate_id |-> c.candidate_id, candidate_type |-> c.candidate_type,
                       similar_users |-> n, all_users_data |-> List(<<u2, CollabPeerU3>>)]
    /\ ret = FZero

CallCollab ==
    /\ pc = "call"
    /\ fn = "get_collaborative_score"
    /\ ret' = get_collaborative_score(args.candidate_id, args.similar_users,
                                      args.all_users_data, args.candidate_type)
    /\ pc' = "return"
    /\ UNCHANGED <<fn, args, local, requests, tries>>

SpecCollab == InitCollab /\ [][CallCollab]_vars

\* the profile of the peer with this id, if any
PeerOf(uid) ==
    LET at == {i \in 1..Len(args.all_users_data.v) : args.all_users_data.v[i].v.userId = uid}
    IN  IF at = {} THEN None ELSE args.all_users_data.v[CHOOSE i \in at : TRUE]
\* the records of the candidate in a peer's profile: test records with the
\* candidate's id, or the progress entry of the lecture
RecordsOf(peer) ==
    IF peer = None THEN <<>>
    ELSE IF args.candidate_type = "test"
    THEN SelectSeq(peer.v.testHistory.v, LAMBDA r : r.v.testId = args.candidate_id)
    ELSE IF Has(peer.v.learningProgress, args.candidate_id)
    THEN <<peer.v.learningProgress.v[args.candidate_id]>>
    ELSE IF Has(peer.v.learningProgress, "items")
    THEN SelectSeq([i \in 1..Len(peer.v.learningProgress.v.items.v) |->
                      IF Has(peer.v.learningProgress.v.items.v[i], args.candidate_id)
                      THEN peer.v.learningProgress.v.items.v[i].v[args.candidate_id] ELSE None],
                   LAMBDA r : r # None)
    ELSE <<>>
\* the neighbors that have a record of the candidate, in the list's order
MatchingNeighbors ==
    SelectSeq([i \in 1..Len(args.similar_users) |-> i],
              LAMBDA i : Len(RecordsOf(PeerOf(args.similar_users[i][1]))) > 0)
\* similarity times effective score (or completion) of a matching neighbor
Engagement(rec) == IF args.candidate_type = "test" THEN EffectiveScore(rec) ELSE Completion(rec)
Contributions ==
    [k \in 1..Len(MatchingNeighbors) |->
        FMul(args.similar_users[MatchingNeighbors[k]][2],
             Engagement(RecordsOf(PeerOf(args.similar_users[MatchingNeighbors[k]][1]))[1]))]

StatedAttemptFactor(attempts, normalized_score) ==
    FAdd(IF attempts <= 2 THEN FInt(1)
         ELSE FMax(F(4, 10), FSub(FInt(1), FMul(F(15, 100), FInt(attempts - 2)))),
         IF FLt(F(85, 100), normalized_score) /\ attempts >= 3
         THEN FMin(F(3, 10), FMul(F(1, 10), FInt(attempts - 2)))
         ELSE FZero)
\* the attempt factor of the code
FactorOf(attempts, avg_score) ==
    AttemptFactor(F(avg_score, 990), attempts, AttemptPenalty(attempts))
\* the first record of the candidate test of each matching neighbor
MatchedRecords ==
    [k \in 1..Len(MatchingNeighbors) |->
        RecordsOf(PeerOf(args.similar_users[MatchingNeighbors[k]][1]))[1]]
ScoredTestCollab == Returned("get_collaborative_score") /\ args.candidate_type = "test"

\* C17 as stated: for some attempt count the mastery bonus pushes the
\* attempt factor above 1.0.
C17_BonusExceedsOne ==
    ScoredTestCollab =>
        \E attempts \in 0..MaxAttemptCount, avg_score \in AvgScores :
            FLt(FInt(1), FactorOf(attempts, avg_score))

\* C17 as amended: the attempt factor is 1.0 for attempts <= 2 and
\* max(0.4, 1.0 - 0.15 * (attempts - 2)) above, plus the mastery bonus
\* min(0.3, 0.1 * (attempts - 2)) when normalizedScore > 0.85 and attempts >= 3;
\* it never exceeds 1.0, so the effective score never exceeds the normalized
\* score and the collaborative score of a test is at most 1.
C17_FactorAtMostOne ==
    ScoredTestCollab =>
        /\ \A k \in 1..Len(MatchedRecords) :
             /\ FactorOf(MatchedRecords[k].v.attempts, MatchedRecords[k].v.avgScore)
                  = StatedAttemptFactor(MatchedRecords[k].v.attempts,
                                        F(MatchedRecords[k].v.avgScore, 990))
             /\ FLe(FactorOf(MatchedRecords[k].v.attempts, MatchedRecords[k].v.avgScore), FInt(1))
             /\ FLe(EffectiveScore(MatchedRecords[k]), F(MatchedRecords[k].v.avgScore, 990))
        /\ FLe(ret, FInt(1))

\* C17 witness: a neighbor of similarity 1 took the test 3 times with the
\* average 990, so the bonus applies, and the score stays below 1
C17_Witness ==
    /\ ScoredTestCollab
    /\ Len(MatchedRecords) = 1
    /\ args.similar_users[1][2] = FInt(1)
    /\ MatchedRecords[1].v.attempts = 3
    /\ MatchedRecords[1].v.avgScore = 990
    /\ ret = EffectiveScore(MatchedRecords[1])
    /\ FLt(F(9, 10), ret) /\ FLt(ret, FInt(1))

\* C19: for a lecture the completion of every matching neighbor is the
\* recorded percent clamped to 0..100 and divided by 100, so it lies in [0, 1]
\* for every recorded percent, and so does the score they add up to.
C19_CompletionInUnitRange ==
    (Returned("get_collaborative_score") /\ args.candidate_type = "lecture") =>
        /\ \A k \in 1..Len(MatchedRecords) :
             /\ FLe(FZero, Completion(MatchedRecords[k]))
             /\ FLe(Completion(MatchedRecords[k]), FInt(1))
        /\ FLe(FZero, ret)

====
